---------------------------- MODULE Spec2Model ----------------------------
(***************************************************************************)
(* staq hardware mapping: the swap-inserting mapper (mapping/mapping/      *)
(* swap.hpp), the pystaq entry point Program::map and the pystaq Device    *)
(* builder (pystaq/staq_wrapper.cpp).                                      *)
(*                                                                         *)
(* The mapper is modelled statement by statement: one action per visited   *)
(* statement of the program, which stands for the whole Replacer visit of  *)
(* that statement (the references first, then the gate).  The programs are *)
(* not bounded in length: every finite program is a run of the model.      *)
(***************************************************************************)
EXTENDS Integers, Sequences, FiniteSets, TLC

\* Largest device width that is explored (devices have 2..MaxQubits qubits).
MaxQubits == 4

\* Largest device width explored with references beyond the device.
MaxQubitsAny == 3

VARIABLES
    qubits_,       \* device_.qubits_
    adj,           \* device_ adjacency matrix: adj[i][j], control i, target j
    dist,          \* device_ distance table, built when the device is constructed
    permutation_,  \* SwapMapper::permutation_ (std::map<int,int>)
    pc,            \* "visit": run() is traversing; "returned": run() has returned
    ret,           \* value returned by run() / map_onto_device ("none" before)
    cerr,          \* the first diagnostic written to std::cerr: <<>> or << <<ctrl, tgt>> >>
    last,          \* the statement visited last: original, result, context
    slot,          \* reference placement: slot[p] = initial slot whose content is in p
    allLocal,      \* every two-qubit gate visited so far was written on a coupled pair
    xo,            \* basis state after the original statements visited so far
    xm,            \* basis state after the statements emitted so far
    n_,            \* pystaq Device::n_
    adj_,          \* pystaq Device::adj_
    sq_fi_,        \* pystaq Device::sq_fi_, in hundredths
    tq_fi_,        \* pystaq Device::tq_fi_, in hundredths
    call,          \* the last call on the pystaq Device
    mpc,           \* Program::map: the place reached in its body
    args,          \* Program::map: layout, mapper, evaluate_all, device_json
    prog_,         \* Program::prog_, as far as the passes of map change it
    before,        \* Program::prog_ as it was when map was called
    dev,           \* Program::map: qubit count of the local dev (0 before it is built)
    mapped,        \* Program::map: what the mapper call returned (<<>> before)
    result,        \* what Program::map handed to its caller (<<>>: nothing)
    errs,          \* Program::map: messages written to std::cerr
    passes,        \* Program::map: the passes run so far, in order
    body,          \* the statements of the program visited so far, as written
    output,        \* for each of them, the statements standing in its place
    slotElse       \* reference placement when no classical condition holds

mvars == <<qubits_, adj, dist, permutation_, pc, ret, cerr, last, slot, allLocal, xo, xm>>

dvars == <<n_, adj_, sq_fi_, tq_fi_, call>>

pvars == <<mpc, args, prog_, before, dev, mapped, result, errs, passes>>

tvars == <<body, output, slotElse>>

vars == <<mvars, dvars, pvars, tvars>>

-----------------------------------------------------------------------------
(* Devices *)

Qubits(n) == 0 .. (n - 1)

Pairs(n) == {e \in Qubits(n) \X Qubits(n) : e[1] < e[2]}

\* Coupling graphs, as sets of unordered pairs <<i, j>>, i < j.
Line(n) == {e \in Pairs(n) : e[2] = e[1] + 1}
Ring(n) == Line(n) \cup {e \in Pairs(n) : e[1] = 0 /\ e[2] = n - 1}
Star(n) == {e \in Pairs(n) : e[1] = 0}
Full(n) == Pairs(n)
Split(n, k) == {e \in Line(n) : e[2] # k}

Topologies(n) ==
    {Line(n), Ring(n), Star(n), Full(n)} \cup {Split(n, k) : k \in 1 .. (n - 1)}

\* How the couplings of a graph are directed.
Modes == {"both", "up", "mixed"}

\* Whether pair e = <<i, j>>, i < j, is coupled from its lower to its higher end.
Up(mode, e) ==
    CASE mode = "both" -> TRUE
      [] mode = "up" -> TRUE
      [] OTHER -> (e[1] + e[2]) % 3 # 2

Down(mode, e) ==
    CASE mode = "both" -> TRUE
      [] mode = "up" -> FALSE
      [] OTHER -> (e[1] + e[2]) % 3 # 1

AdjOf(n, edges, mode) ==
    [i \in Qubits(n) |-> [j \in Qubits(n) |->
        \/ i < j /\ <<i, j>> \in edges /\ Up(mode, <<i, j>>)
        \/ j < i /\ <<j, i>> \in edges /\ Down(mode, <<j, i>>)]]

Devices(n) == {AdjOf(n, edges, mode) : edges \in Topologies(n), mode \in Modes}

\* Device::coupled
coupled(a, i, j) == a[i][j]

Sym(a, i, j) == a[i][j] \/ a[j][i]

\* The qubits within k steps of src in the symmetric closure of the adjacency.
RECURSIVE Ball(_, _, _)
Ball(a, src, k) ==
    IF k = 0 THEN {src}
    ELSE LET B == Ball(a, src, k - 1)
         IN  B \cup {j \in DOMAIN a : \E i \in B : Sym(a, i, j)}

\* dist[src][dst]; the qubit count stands for "no path".
Dist(a, src, dst) ==
    LET n == Cardinality(DOMAIN a)
        ks == {k \in 0 .. (n - 1) : dst \in Ball(a, src, k)}
    IN  IF ks = {} THEN n ELSE CHOOSE k \in ks : \A m \in ks : k <= m

\* The all-pairs table the device builds at construction.
DistTable(a) == [i \in DOMAIN a |-> [j \in DOMAIN a |-> Dist(a, i, j)]]

\* The paths of d steps from i to dst along which the distance to dst falls
\* by one at every step: source excluded, destination included.
RECURSIVE PathsFrom(_, _, _, _, _)
PathsFrom(a, dt, i, dst, d) ==
    IF d = 0 THEN {<<>>}
    ELSE UNION {{<<k>> \o p : p \in PathsFrom(a, dt, k, dst, d - 1)} :
                k \in {k \in DOMAIN a : Sym(a, i, k) /\ dt[k][dst] = d - 1}}

\* Device::shortest_path: the results the tie-breaking can give.  Empty when
\* src = dst and when there is no path.
shortest_path(a, dt, src, dst) ==
    LET d == dt[src][dst]
    IN  IF d = Cardinality(DOMAIN a) THEN {<<>>} ELSE PathsFrom(a, dt, src, dst, d)

Connected(a, dt) == \A i, j \in DOMAIN a : dt[i][j] < Cardinality(DOMAIN a)

Undirected(a) == \A i, j \in DOMAIN a : a[i][j] = a[j][i]

-----------------------------------------------------------------------------
(* Statements *)

\* SwapMapper::config::register_name
register_name == "q"

VarAccess(var, offset) == [var |-> var, offset |-> offset]

CNOTGate(ctrl, tgt) == [op |-> "CX", ctrl |-> ctrl, tgt |-> tgt]

\* A single-qubit gate of the input program.
UGate(arg) == [op |-> "U", arg |-> arg]

\* SwapMapper::generate_cnot
generate_cnot(i, j) ==
    CNOTGate(VarAccess(register_name, i), VarAccess(register_name, j))

\* SwapMapper::generate_hadamard: U(pi/2, 0, pi) on register_name[i]
generate_hadamard(i) == [op |-> "H", arg |-> VarAccess(register_name, i)]

\* A sandwich whose inner CNOT keeps the direction from i to j.
generate_swapped_cnotSameDirection(i, j) ==
    << generate_hadamard(i), generate_hadamard(j), generate_cnot(i, j),
       generate_hadamard(i), generate_hadamard(j) >>

\* SwapMapper::generate_swapped_cnot
generate_swapped_cnot(i, j) ==
    << generate_hadamard(i), generate_hadamard(j), generate_cnot(j, i),
       generate_hadamard(i), generate_hadamard(j) >>

-----------------------------------------------------------------------------
(* SwapMapper *)

Identity(n) == [i \in Qubits(n) |-> i]

\* std::map<int,int>::operator[]: a key that is missing is inserted with the
\* value-initialised value 0, and that value is returned.
MapIndex(m, k) ==
    IF k \in DOMAIN m
    THEN [map |-> m, value |-> m[k]]
    ELSE [map |-> [x \in DOMAIN m \cup {k} |-> IF x = k THEN 0 ELSE m[x]],
          value |-> 0]

\* A rewrite that hands every reference back as it is.
replace_VarAccessUnpermuted(perm, va) == [perm |-> perm, va |-> va]

\* A rewrite that does not look at the name of the register.
replace_VarAccessAnyRegister(perm, va) ==
    LET r == MapIndex(perm, va.offset)
    IN  [perm |-> r.map, va |-> VarAccess(va.var, r.value)]

\* SwapMapper::replace(ast::VarAccess&): the rewritten reference and the
\* permutation after the lookup.
replace_VarAccess(perm, va) ==
    IF va.var = register_name
    THEN LET r == MapIndex(perm, va.offset)
         IN  [perm |-> r.map, va |-> VarAccess(va.var, r.value)]
    ELSE [perm |-> perm, va |-> va]

\* A permutation update that exchanges the entries of the keys i and j.
AdjustPermutationByKey(perm, i, j) ==
    [q_init \in DOMAIN perm |->
        IF q_init = i THEN perm[j]
        ELSE IF q_init = j THEN perm[i]
        ELSE perm[q_init]]

\* A permutation update that redirects the entries pointing at i only.
AdjustPermutationOneWay(perm, i, j) ==
    [q_init \in DOMAIN perm |->
        IF perm[q_init] = i THEN j ELSE perm[q_init]]

\* "Adjust permutation": every entry pointing at i points at j, and conversely.
AdjustPermutation(perm, i, j) ==
    [q_init \in DOMAIN perm |->
        IF perm[q_init] = i THEN j
        ELSE IF perm[q_init] = j THEN i
        ELSE perm[q_init]]

\* A swap that never turns the pair to the coupled direction.
SwapGatesNoDirection(a, i, j) ==
    <<generate_cnot(i, j)>>
    \o (IF coupled(a, j, i)
        THEN <<generate_cnot(j, i)>>
        ELSE generate_swapped_cnot(j, i))
    \o <<generate_cnot(i, j)>>

\* A swap that leaves out the third CNOT.
SwapGatesTwoCNOTs(a, i, j) ==
    LET swap_i == IF ~coupled(a, i, j) THEN j ELSE i
        swap_j == IF ~coupled(a, i, j) THEN i ELSE j
    IN  <<generate_cnot(swap_i, swap_j)>>
        \o (IF coupled(a, swap_j, swap_i)
            THEN <<generate_cnot(swap_j, swap_i)>>
            ELSE generate_swapped_cnot(swap_j, swap_i))

\* The gates of one swap of i and j ("CNOT 1", "CNOT 2", "CNOT 3").
SwapGates(a, i, j) ==
    LET swap_i == IF ~coupled(a, i, j) THEN j ELSE i
        swap_j == IF ~coupled(a, i, j) THEN i ELSE j
    IN  <<generate_cnot(swap_i, swap_j)>>
        \o (IF coupled(a, swap_j, swap_i)
            THEN <<generate_cnot(swap_j, swap_i)>>
            ELSE generate_swapped_cnot(swap_j, swap_i))
        \o <<generate_cnot(swap_i, swap_j)>>

\* A last step that tests the coupling from j to i.
FinalGatesWrongDirection(a, i, j) ==
    IF coupled(a, j, i) THEN <<generate_cnot(i, j)>>
    ELSE generate_swapped_cnot(i, j)

\* The last step of the chain: the gate from i to j = tgt.
FinalGates(a, i, j) ==
    IF coupled(a, i, j) THEN <<generate_cnot(i, j)>>
    ELSE generate_swapped_cnot(i, j)

\* A loop that leaves out "i = j": every swap starts at the cursor it began with.
RECURSIVE SwapChainFromCtrl(_, _, _, _, _, _)
SwapChainFromCtrl(a, cnot_chain, k, i, tgt, acc) ==
    IF k > Len(cnot_chain) THEN acc
    ELSE LET j == cnot_chain[k]
         IN  IF j = tgt
             THEN [acc EXCEPT !.ret = @ \o FinalGates(a, i, j)]
             ELSE IF j # i
             THEN SwapChainFromCtrl(a, cnot_chain, k + 1, i, tgt,
                      [ret |-> acc.ret \o SwapGates(a, i, j),
                       perm |-> AdjustPermutation(acc.perm, i, j),
                       swaps |-> Append(acc.swaps, <<i, j>>)])
             ELSE SwapChainFromCtrl(a, cnot_chain, k + 1, i, tgt, acc)

\* The loop "for (auto j : cnot_chain)" from element k on, with cursor i.
\* acc.ret: gates emitted so far; acc.perm: the permutation; acc.swaps: the
\* pairs <<i, j>> swapped so far.
RECURSIVE SwapChain(_, _, _, _, _, _)
SwapChain(a, cnot_chain, k, i, tgt, acc) ==
    IF k > Len(cnot_chain) THEN acc
    ELSE LET j == cnot_chain[k]
         IN  IF j = tgt
             THEN [acc EXCEPT !.ret = @ \o FinalGates(a, i, j)]
             ELSE IF j # i
             THEN SwapChain(a, cnot_chain, k + 1, j, tgt,
                      [ret |-> acc.ret \o SwapGates(a, i, j),
                       perm |-> AdjustPermutation(acc.perm, i, j),
                       swaps |-> Append(acc.swaps, <<i, j>>)])
             ELSE SwapChain(a, cnot_chain, k + 1, j, tgt, acc)

\* A replace that hands back an empty list, not std::nullopt, for an empty
\* path: the gate is taken out of the program.
replace_CNOTGateEmptyList(a, perm, gate, cnot_chain) ==
    LET ctrl == gate.ctrl.offset
        tgt == gate.tgt.offset
    IN  IF cnot_chain = <<>>
        THEN [replaced |-> TRUE, ret |-> <<>>, perm |-> perm, swaps |-> <<>>,
              err |-> << <<ctrl, tgt>> >>]
        ELSE LET r == SwapChain(a, cnot_chain, 1, ctrl, tgt,
                          [ret |-> <<>>, perm |-> perm, swaps |-> <<>>])
             IN  [replaced |-> TRUE, ret |-> r.ret, perm |-> r.perm,
                  swaps |-> r.swaps, err |-> <<>>]

\* SwapMapper::replace(ast::CNOTGate&) on a gate whose references are already
\* rewritten, for the path the device returned.  replaced = FALSE stands for
\* std::nullopt: the gate stays in the program as it is.
replace_CNOTGate(a, perm, gate, cnot_chain) ==
    LET ctrl == gate.ctrl.offset
        tgt == gate.tgt.offset
    IN  IF cnot_chain = <<>>
        THEN [replaced |-> FALSE, ret |-> <<>>, perm |-> perm, swaps |-> <<>>,
              err |-> << <<ctrl, tgt>> >>]
        ELSE LET r == SwapChain(a, cnot_chain, 1, ctrl, tgt,
                          [ret |-> <<>>, perm |-> perm, swaps |-> <<>>])
             IN  [replaced |-> TRUE, ret |-> r.ret, perm |-> r.perm,
                  swaps |-> r.swaps, err |-> <<>>]

\* Reference placement: the contents of the slots after the given swaps.
RECURSIVE ApplySwaps(_, _)
ApplySwaps(s, swaps) ==
    IF swaps = <<>> THEN s
    ELSE LET i == Head(swaps)[1]
             j == Head(swaps)[2]
         IN  ApplySwaps([s EXCEPT ![i] = s[j], ![j] = s[i]], Tail(swaps))

\* One gate on a computational basis state.  A CNOT adds the control bit to
\* the target bit; no other gate maps basis states to basis states, which the
\* value 2 in every position records.
ApplyGate(x, g) ==
    IF g.op = "CX" /\ g.ctrl.offset \in DOMAIN x /\ g.tgt.offset \in DOMAIN x
    THEN [x EXCEPT ![g.tgt.offset] = (@ + x[g.ctrl.offset]) % 2]
    ELSE [p \in DOMAIN x |-> 2]

RECURSIVE Exec(_, _)
Exec(x, gates) ==
    IF gates = <<>> THEN x ELSE Exec(ApplyGate(x, Head(gates)), Tail(gates))

-----------------------------------------------------------------------------
(* The traversal of SwapMapper::run *)

NoStatement ==
    [orig |-> <<>>, gate |-> <<>>, chain |-> <<>>, before |-> <<>>,
     res |-> <<>>, replaced |-> FALSE, swaps |-> <<>>, afterErr |-> FALSE]

\* SwapMapper::SwapMapper, on a device of the family of at most m qubits.
MapperInit(m) ==
    /\ qubits_ \in 2 .. m
    /\ adj \in Devices(qubits_)
    /\ dist = DistTable(adj)
    /\ permutation_ = Identity(qubits_)
    /\ pc = "visit"
    /\ ret = <<>>
    /\ cerr = <<>>
    /\ last = NoStatement
    /\ slot = Identity(qubits_)
    /\ allLocal = TRUE
    /\ body = <<>>
    /\ output = <<>>
    /\ slotElse = Identity(qubits_)

\* Replacer::visit(CNOTGate&) with the overrides of SwapMapper: the control
\* reference, the target reference, then the gate.  sem: the basis states
\* follow the gates, and no record of the statement is kept.
VisitCNOTOn(c0, t0, sem) ==
    /\ pc = "visit"
    /\ LET orig == CNOTGate(VarAccess(register_name, c0), VarAccess(register_name, t0))
           rc == replace_VarAccess(permutation_, orig.ctrl)
           rt == replace_VarAccess(rc.perm, orig.tgt)
           gate == CNOTGate(rc.va, rt.va)
       IN  \E cnot_chain \in shortest_path(adj, dist, gate.ctrl.offset, gate.tgt.offset) :
             LET r == replace_CNOTGate(adj, rt.perm, gate, cnot_chain)
                 res == IF r.replaced THEN r.ret ELSE <<gate>>
             IN  /\ permutation_' = r.perm
                 /\ cerr' = IF cerr = <<>> THEN r.err ELSE cerr
                 /\ last' = IF sem THEN last
                            ELSE [orig |-> <<orig>>, gate |-> <<gate>>,
                                  chain |-> cnot_chain, before |-> permutation_,
                                  res |-> res,
                                  replaced |-> r.replaced, swaps |-> r.swaps,
                                  afterErr |-> cerr # <<>>]
                 /\ slot' = ApplySwaps(slot, r.swaps)
                 /\ allLocal' = (allLocal /\ c0 \in DOMAIN adj /\ t0 \in DOMAIN adj
                                          /\ coupled(adj, c0, t0))
                 /\ xo' = IF sem THEN ApplyGate(xo, orig) ELSE xo
                 /\ xm' = IF sem THEN Exec(xm, res) ELSE xm
    /\ UNCHANGED <<qubits_, adj, dist, pc, ret>>
    /\ UNCHANGED <<dvars, pvars, tvars>>

\* Replacer::visit(UGate&): the reference is rewritten, the gate is kept.
VisitUGateOn(p) ==
    /\ pc = "visit"
    /\ LET orig == UGate(VarAccess(register_name, p))
           ra == replace_VarAccess(permutation_, orig.arg)
       IN  /\ permutation_' = ra.perm
           /\ last' = [orig |-> <<orig>>, gate |-> <<UGate(ra.va)>>,
                       chain |-> <<>>, before |-> permutation_,
                       res |-> <<UGate(ra.va)>>,
                       replaced |-> FALSE, swaps |-> <<>>,
                       afterErr |-> cerr # <<>>]
    /\ UNCHANGED <<qubits_, adj, dist, pc, ret, cerr, slot, allLocal, xo, xm>>
    /\ UNCHANGED <<dvars, pvars, tvars>>

\* A two-qubit gate on two different qubits of the device.
VisitCNOT ==
    \E c0, t0 \in Qubits(qubits_) : c0 # t0 /\ VisitCNOTOn(c0, t0, FALSE)

\* A single-qubit gate on a qubit of the device.
VisitUGate ==
    \E p \in Qubits(qubits_) : VisitUGateOn(p)

\* SwapMapper::run returns permutation_ once the program is traversed.
Return ==
    /\ pc = "visit"
    /\ pc' = "returned"
    /\ ret' = <<permutation_>>
    /\ UNCHANGED <<qubits_, adj, dist, permutation_, cerr, last, slot, allLocal, xo, xm>>
    /\ UNCHANGED <<dvars, pvars, tvars>>

\* No pystaq Device is being built.
DeviceIdle ==
    /\ n_ = 0
    /\ adj_ = <<>>
    /\ sq_fi_ = <<>>
    /\ tq_fi_ = <<>>
    /\ call = <<>>

\* Program::map is not being called.
MapIdle ==
    /\ mpc = "idle"
    /\ args = <<>>
    /\ prog_ = <<>>
    /\ before = <<>>
    /\ dev = 0
    /\ mapped = <<>>
    /\ result = <<>>
    /\ errs = <<>>
    /\ passes = <<>>

\* No mapper is running.
MapperIdle ==
    /\ qubits_ = 0
    /\ adj = <<>>
    /\ dist = <<>>
    /\ permutation_ = <<>>
    /\ pc = "idle"
    /\ ret = <<>>
    /\ cerr = <<>>
    /\ last = NoStatement
    /\ slot = <<>>
    /\ allLocal = TRUE
    /\ xo = <<>>
    /\ xm = <<>>
    /\ body = <<>>
    /\ output = <<>>
    /\ slotElse = <<>>

Init ==
    /\ MapperInit(MaxQubits)
    /\ xo = [p \in Qubits(qubits_) |-> 0]
    /\ xm = xo
    /\ DeviceIdle
    /\ MapIdle

Next == VisitCNOT \/ VisitUGate \/ Return

\* The mapper on the programs whose references are qubits of the device.
Spec == Init /\ [][Next]_vars

\* CNOT-only programs on connected undirected devices, run on every
\* computational basis state next to their mapped form.
InitSem ==
    /\ MapperInit(MaxQubits)
    /\ Connected(adj, dist)
    /\ Undirected(adj)
    /\ xo \in [Qubits(qubits_) -> {0, 1}]
    /\ xm = xo
    /\ DeviceIdle
    /\ MapIdle

VisitCNOTSem ==
    \E c0, t0 \in Qubits(qubits_) : c0 # t0 /\ VisitCNOTOn(c0, t0, TRUE)

NextSem == VisitCNOTSem \/ Return

SpecSem == InitSem /\ [][NextSem]_vars

\* A reference on the configured register beyond the width of the device:
\* in a single-qubit gate, or as one operand of a two-qubit gate.
VisitOutOfRange ==
    \/ VisitUGateOn(qubits_)
    \/ \E p \in Qubits(qubits_) : VisitCNOTOn(qubits_, p, FALSE)
    \/ \E p \in Qubits(qubits_) : VisitCNOTOn(p, qubits_, FALSE)

InitAny ==
    /\ MapperInit(MaxQubitsAny)
    /\ xo = [p \in Qubits(qubits_) |-> 0]
    /\ xm = xo
    /\ DeviceIdle
    /\ MapIdle

NextAny == Next \/ VisitOutOfRange

\* The mapper on programs that may refer to q[n] on a device of n qubits.
SpecAny == InitAny /\ [][NextAny]_vars

-----------------------------------------------------------------------------
(* Properties of the mapper *)

IsCNOT(g) == g.op = "CX"

\* Both operands of a CNOT are qubits of the device coupled in some direction.
Local(g) ==
    /\ g.ctrl.offset \in DOMAIN adj
    /\ g.tgt.offset \in DOMAIN adj
    /\ Sym(adj, g.ctrl.offset, g.tgt.offset)

\* The statement visited last was a two-qubit gate.
LastIsCNOT == last.orig # <<>> /\ IsCNOT(last.orig[1])

\* The last CNOT among the given gates.
FinalCNOT(gates) ==
    LET ks == {k \in 1 .. Len(gates) : IsCNOT(gates[k])}
    IN  gates[CHOOSE k \in ks : \A m \in ks : m <= k]

\* The gates end with the Hadamard sandwich around a CNOT from j to i.
EndsWithSandwich(gates, i, j) ==
    /\ Len(gates) >= 5
    /\ SubSeq(gates, Len(gates) - 4, Len(gates)) = generate_swapped_cnot(i, j)

\* C1 (as claimed): every CNOT of the resulting program is between qubits
\* that are coupled in at least one direction, on every device, connected
\* or not.
C1_Locality ==
    \A k \in 1 .. Len(last.res) : IsCNOT(last.res[k]) => Local(last.res[k])

\* The content that started in slot s is in slot permutation_[s].
PlacementTracked ==
    \A s \in Qubits(qubits_) : slot[permutation_[s]] = s

\* C2 (as claimed): on a connected device the permutation agrees with the
\* reference placement, and the final CNOT emitted for a gate written on
\* (a, b) has as control the slot holding a's content and as target the
\* slot holding b's content.
C2_FinalCNOTOnHolders ==
    Connected(adj, dist) =>
        /\ PlacementTracked
        /\ LastIsCNOT =>
             LET g == FinalCNOT(last.res)
             IN  /\ slot[g.ctrl.offset] = last.orig[1].ctrl.offset
                 /\ slot[g.tgt.offset] = last.orig[1].tgt.offset

\* C2 (amended): on a connected device the permutation agrees with the
\* reference placement, and the rewrite of a gate written on (a, b) ends
\* with a CNOT from the slot holding a's content to the slot holding b's
\* content when that direction is coupled, and otherwise with the Hadamard
\* sandwich on these two slots, whose CNOT goes from the slot holding b's
\* content to the slot holding a's.
C2_PermutationTracksPlacement ==
    Connected(adj, dist) =>
        /\ PlacementTracked
        /\ LastIsCNOT =>
             LET g == FinalCNOT(last.res)
                 a == last.orig[1].ctrl.offset
                 b == last.orig[1].tgt.offset
             IN  IF IsCNOT(last.res[Len(last.res)])
                 THEN /\ slot[g.ctrl.offset] = a
                      /\ slot[g.tgt.offset] = b
                      /\ coupled(adj, g.ctrl.offset, g.tgt.offset)
                 ELSE /\ slot[g.tgt.offset] = a
                      /\ slot[g.ctrl.offset] = b
                      /\ EndsWithSandwich(last.res, g.tgt.offset, g.ctrl.offset)
                      /\ ~coupled(adj, g.tgt.offset, g.ctrl.offset)

\* A rewrite with two swaps that ends with a Hadamard sandwich, on a
\* connected device whose permutation was not the identity before it.
C2_Witness ==
    /\ Connected(adj, dist)
    /\ LastIsCNOT
    /\ Len(last.swaps) >= 2
    /\ ~IsCNOT(last.res[Len(last.res)])
    /\ last.orig[1].ctrl.offset # last.swaps[1][1]

C5_IdentityForLocalPrograms ==
    (allLocal \/ \A i, j \in DOMAIN adj : i # j => adj[i][j]) =>
        /\ permutation_ = Identity(qubits_)
        /\ last.swaps = <<>>
        /\ last.res = last.orig
        /\ \A k \in 1 .. Len(last.res) : last.res[k].op # "H"

\* A local two-qubit gate has been visited on a device that is not fully
\* connected and has couplings in one direction only.
C5_Witness ==
    /\ allLocal
    /\ LastIsCNOT
    /\ \E i, j \in DOMAIN adj : i # j /\ ~Sym(adj, i, j)
    /\ ~adj[last.orig[1].tgt.offset][last.orig[1].ctrl.offset]

\* C4: on a connected undirected device and for every basis state, the bit
\* that the original CNOT program leaves in slot s is the bit that the mapped
\* program leaves in slot permutation_[s].
C4_SemanticEquivalence ==
    /\ \A p \in DOMAIN xm : xm[p] \in {0, 1}
    /\ \A s \in Qubits(qubits_) : xm[permutation_[s]] = xo[s]

\* Swaps have moved the content of every slot of a device that is not fully
\* connected, and the two programs have left different bits in some slot.
C4_Witness ==
    /\ \E i, j \in DOMAIN adj : i # j /\ ~Sym(adj, i, j)
    /\ \A s \in Qubits(qubits_) : permutation_[s] # s
    /\ \E s \in Qubits(qubits_) : xo[s] = 1
    /\ xo # xm
    /\ pc = "returned"

\* C6 (as claimed): once the path of a gate is empty the pass has stopped:
\* no later statement is visited, and run() does not return a permutation.
C6_DisconnectedAborts ==
    /\ ~last.afterErr
    /\ cerr # <<>> => pc # "visit" /\ ret = <<>>

\* The statement visited last refers to a qubit beyond the device.
LastOutOfRange ==
    /\ last.orig # <<>>
    /\ \/ IsCNOT(last.orig[1]) /\ last.orig[1].ctrl.offset >= qubits_
       \/ IsCNOT(last.orig[1]) /\ last.orig[1].tgt.offset >= qubits_
       \/ ~IsCNOT(last.orig[1]) /\ last.orig[1].arg.offset >= qubits_

\* C8 (as claimed): a reference beyond the device stops the pass with an
\* error: the statement is not rewritten, permutation_ gets no new entry,
\* no later statement is visited and no permutation is returned.
C8_OutOfRangeIsFatal ==
    /\ DOMAIN permutation_ = Qubits(qubits_)
    /\ LastOutOfRange =>
          /\ last.res = last.orig
          /\ pc # "visit"
          /\ ret = <<>>

\* The statement visited last was a two-qubit gate that the mapper replaced.
LastReplaced == LastIsCNOT /\ last.replaced

\* C12: every CNOT the mapper emits for a gate (in a swap, inside a Hadamard
\* sandwich, as the final gate) has its control and target coupled in that
\* direction, on undirected, directed and mixed devices.
C12_DirectionRespecting ==
    LastReplaced =>
        \A k \in 1 .. Len(last.res) :
            IsCNOT(last.res[k]) =>
                adj[last.res[k].ctrl.offset][last.res[k].tgt.offset]

\* A rewrite with a swap on a pair coupled in one direction only, against
\* the order of the path, that ends with a Hadamard sandwich.
C12_Witness ==
    /\ LastReplaced
    /\ \E k \in 1 .. Len(last.swaps) :
          /\ ~adj[last.swaps[k][1]][last.swaps[k][2]]
          /\ adj[last.swaps[k][2]][last.swaps[k][1]]
    /\ ~IsCNOT(last.res[Len(last.res)])

\* The nodes the rewrite walks: the permuted control, then the path.
PathNodes == <<last.gate[1].ctrl.offset>> \o last.chain

\* The pairs (c, v1), (v1, v2), ..., (v(d-2), v(d-1)) of the path.
PathPairs ==
    [k \in 1 .. (Len(last.chain) - 1) |-> <<PathNodes[k], PathNodes[k + 1]>>]

\* Where the transpositions, applied in order, take p.
RECURSIVE Moved(_, _)
Moved(p, pairs) ==
    IF pairs = <<>> THEN p
    ELSE LET i == Head(pairs)[1]
             j == Head(pairs)[2]
         IN  Moved(IF p = i THEN j ELSE IF p = j THEN i ELSE p, Tail(pairs))

Cx(c, t) ==
    [op |-> "CX", ctrl |-> [var |-> "q", offset |-> c],
     tgt |-> [var |-> "q", offset |-> t]]

Had(p) == [op |-> "H", arg |-> [var |-> "q", offset |-> p]]

\* H i; H t; CNOT t -> i; H i; H t
Sandwich(i, t) == <<Had(i), Had(t), Cx(t, i), Had(i), Had(t)>>

\* The forms of one SWAP of a and b: three CNOTs alternating in direction,
\* the middle one possibly as a sandwich, starting in either direction.
SwapForms(a, b) ==
    { <<Cx(a, b), Cx(b, a), Cx(a, b)>>,
      <<Cx(b, a), Cx(a, b), Cx(b, a)>>,
      <<Cx(a, b)>> \o Sandwich(b, a) \o <<Cx(a, b)>>,
      <<Cx(b, a)>> \o Sandwich(a, b) \o <<Cx(b, a)>> }

\* gates is one SWAP per consecutive pair of nodes but the last, in order,
\* then one final gate (a CNOT or its sandwich) from the last but one node
\* to the last.
RECURSIVE Shape(_, _)
Shape(gates, nodes) ==
    IF Len(nodes) < 2 THEN FALSE
    ELSE IF Len(nodes) = 2
    THEN gates \in {<<Cx(nodes[1], nodes[2])>>, Sandwich(nodes[1], nodes[2])}
    ELSE \E f \in SwapForms(nodes[1], nodes[2]) :
            /\ Len(gates) >= Len(f)
            /\ SubSeq(gates, 1, Len(f)) = f
            /\ Shape(SubSeq(gates, Len(f) + 1, Len(gates)), Tail(nodes))

\* gates is the SWAPs of the pairs as CNOTs a->b, b->a, a->b, then CNOT i->t.
RECURSIVE PlainShape(_, _)
PlainShape(gates, nodes) ==
    IF Len(nodes) < 2 THEN FALSE
    ELSE IF Len(nodes) = 2 THEN gates = <<Cx(nodes[1], nodes[2])>>
    ELSE /\ Len(gates) >= 3
         /\ SubSeq(gates, 1, 3) =
                <<Cx(nodes[1], nodes[2]), Cx(nodes[2], nodes[1]), Cx(nodes[1], nodes[2])>>
         /\ PlainShape(SubSeq(gates, 4, Len(gates)), Tail(nodes))

\* C13: for a two-qubit gate with permuted control c, target t and path
\* (v1, ..., vd), vd = t, the mapper emits d-1 SWAPs on (c, v1), (v1, v2),
\* ..., (v(d-2), v(d-1)) in this order and then one final gate from v(d-1)
\* to t; afterwards permutation_ is the earlier permutation composed with
\* these transpositions in order; on an undirected device every SWAP is the
\* CNOTs a->b, b->a, a->b and the rewrite has 3(d-1)+1 gates.
C13_ShapeOfRewrite ==
    LastReplaced =>
        LET d == Len(last.chain)
        IN  /\ d >= 1
            /\ last.chain[d] = last.gate[1].tgt.offset
            /\ Shape(last.res, PathNodes)
            /\ \A s \in DOMAIN last.before :
                   permutation_[s] = Moved(last.before[s], PathPairs)
            /\ DOMAIN permutation_ = DOMAIN last.before
            /\ Undirected(adj) =>
                   /\ PlainShape(last.res, PathNodes)
                   /\ Len(last.res) = 3 * (d - 1) + 1

\* A rewrite along a path of three steps, from a permutation other than the
\* identity, on an undirected device.
C13_Witness ==
    /\ LastReplaced
    /\ Len(last.chain) = 3
    /\ last.before # Identity(qubits_)
    /\ Undirected(adj)
    /\ Len(last.res) = 7

\* C14: when the final step (i, t) of a rewrite has adj[i][t] false and
\* adj[t][i] true, the rewrite ends with exactly H i; H t; CNOT t->i; H i;
\* H t where CNOT i->t would have stood, and this step leaves permutation_
\* as the swaps before it left it (unchanged when there are none).
C14_HadamardSandwich ==
    LastReplaced =>
        LET d == Len(last.chain)
            i == PathNodes[d]
            t == last.gate[1].tgt.offset
            n == Len(last.res)
        IN  (~adj[i][t] /\ adj[t][i]) =>
                /\ n >= 5
                /\ SubSeq(last.res, n - 4, n) =
                       <<Had(i), Had(t), Cx(t, i), Had(i), Had(t)>>
                /\ Shape(SubSeq(last.res, 1, n - 5) \o <<Cx(i, t)>>, PathNodes)
                /\ \A s \in DOMAIN last.before :
                       permutation_[s] = Moved(last.before[s], PathPairs)
                /\ d = 1 => (n = 5 /\ permutation_ = last.before)

\* Scenario C inside a longer program: a gate on a coupled pair against the
\* only coupled direction, visited when the permutation is not the identity,
\* rewritten to five gates.
C14_Witness ==
    /\ LastReplaced
    /\ Len(last.chain) = 1
    /\ ~adj[last.gate[1].ctrl.offset][last.gate[1].tgt.offset]
    /\ adj[last.gate[1].tgt.offset][last.gate[1].ctrl.offset]
    /\ Len(last.res) = 5
    /\ last.before # Identity(qubits_)

-----------------------------------------------------------------------------
(* pystaq Device: a device built edge by edge from the scripting side.      *)
(* Fidelities are counted in hundredths.                                    *)

MaxDeviceQubits == 2

\* staq::mapping::FIDELITY_1, the default fidelity: just below 1.
FIDELITY_1 == 99

\* Fidelity arguments: below 0, inside [0,1], the default, above 1.
Fidelities == {-1, 50, FIDELITY_1, 101}

\* Qubit arguments of a device of n qubits: below 0, inside, beyond.
QubitArgs(n) == -1 .. n

\* Device(int n); the constructor throws for n <= 0, so no such object exists.
DeviceInit ==
    /\ n_ \in 1 .. MaxDeviceQubits
    /\ sq_fi_ = [i \in Qubits(n_) |-> FIDELITY_1]
    /\ adj_ = [i \in Qubits(n_) |-> [j \in Qubits(n_) |-> FALSE]]
    /\ tq_fi_ = [i \in Qubits(n_) |-> [j \in Qubits(n_) |-> FIDELITY_1]]
    /\ call = <<>>

\* m[i][j] = v, and m[j][i] = v too when the edge is not directed.
SetEdge(m, i, j, directed, v) ==
    [a \in DOMAIN m |-> [b \in DOMAIN m[a] |->
        IF (a = i /\ b = j) \/ (~directed /\ a = j /\ b = i) THEN v ELSE m[a][b]]]

add_edge(control, target, directed, fidelity) ==
    /\ call' = [op |-> "add_edge", control |-> control, target |-> target,
                directed |-> directed, fidelity |-> fidelity]
    /\ IF control < 0 \/ control >= n_ \/ target < 0 \/ target >= n_
       THEN UNCHANGED <<adj_, tq_fi_>>
       ELSE /\ adj_' = SetEdge(adj_, control, target, directed, TRUE)
            /\ IF fidelity # FIDELITY_1
               THEN IF fidelity < 0 \/ fidelity > 100
                    THEN UNCHANGED tq_fi_
                    ELSE tq_fi_' = SetEdge(tq_fi_, control, target, directed, fidelity)
               ELSE UNCHANGED tq_fi_
    /\ UNCHANGED <<n_, sq_fi_>>
    /\ UNCHANGED <<mvars, pvars, tvars>>

set_fidelity(qubit, fidelity) ==
    /\ call' = [op |-> "set_fidelity", qubit |-> qubit, fidelity |-> fidelity]
    /\ IF qubit < 0 \/ qubit >= n_
       THEN UNCHANGED sq_fi_
       ELSE IF fidelity < 0 \/ fidelity > 100
            THEN UNCHANGED sq_fi_
            ELSE sq_fi_' = [sq_fi_ EXCEPT ![qubit] = fidelity]
    /\ UNCHANGED <<n_, adj_, tq_fi_>>
    /\ UNCHANGED <<mvars, pvars, tvars>>

AddEdge ==
    \E control, target \in QubitArgs(n_), directed \in BOOLEAN, fidelity \in Fidelities :
        add_edge(control, target, directed, fidelity)

SetFidelity ==
    \E qubit \in QubitArgs(n_), fidelity \in Fidelities : set_fidelity(qubit, fidelity)

InitDevice == DeviceInit /\ MapperIdle /\ MapIdle

NextDevice == AddEdge \/ SetFidelity

SpecDevice == InitDevice /\ [][NextDevice]_vars

\* A call that the claim counts as out of range.
OutOfRangeEdit(c) ==
    /\ c # <<>>
    /\ \/ /\ c.op = "add_edge"
          /\ \/ c.control \notin Qubits(n_)
             \/ c.target \notin Qubits(n_)
             \/ c.fidelity < 0
             \/ c.fidelity > 100
       \/ /\ c.op = "set_fidelity"
          /\ \/ c.qubit \notin Qubits(n_)
             \/ c.fidelity < 0
             \/ c.fidelity > 100

\* C10 (as claimed): an add_edge call with a qubit outside 0..n-1 or a
\* fidelity outside [0,1], and a set_fidelity call with a qubit outside
\* 0..n-1 or a fidelity outside [0,1], leave adj_, sq_fi_ and tq_fi_ as they
\* were before the call.
C10_OutOfRangeEditsIgnored ==
    [][OutOfRangeEdit(call') => UNCHANGED <<adj_, sq_fi_, tq_fi_>>]_vars

\* C11 (as claimed): after construction and after any add_edge calls, with
\* control = target among them, adj_[i][i] is false for every qubit i.
C11_NoSelfLoops ==
    \A i \in DOMAIN adj_ : ~adj_[i][i]

\* The last call was add_edge with both qubits in 0..n-1 and a fidelity in
\* [0,1].
LastIsValidAddEdge ==
    /\ call # <<>>
    /\ call.op = "add_edge"
    /\ call.control \in Qubits(n_)
    /\ call.target \in Qubits(n_)
    /\ call.fidelity >= 0
    /\ call.fidelity <= 100

\* C21 (as claimed): after the most recent call add_edge(c, t, directed, f)
\* with c, t in 0..n-1 and f in [0,1], tq_fi_[c][t] is f, and tq_fi_[t][c]
\* is f when the call was not directed, also when f is FIDELITY_1 and an
\* earlier call had stored another fidelity on the pair.
C21_LastWriteWins ==
    LastIsValidAddEdge =>
        /\ tq_fi_[call.control][call.target] = call.fidelity
        /\ ~call.directed => tq_fi_[call.target][call.control] = call.fidelity

-----------------------------------------------------------------------------
(* pystaq Program::map: the pipeline from the scripting side.  The program  *)
(* is kept as far as the passes change it: the calls of declared gates, the *)
(* gate declarations, the sizes of its quantum registers, whether its       *)
(* references are physical indices of the global register, the mapper that  *)
(* rewrote it, and whether symbolic expressions are left.                   *)

MaxMapQubits == 3

Layouts == {"linear", "eager", "bestfit", "other"}

Mappers == {"swap", "steiner", "other"}

\* device_json: 0 is the empty string, n > 0 a description of n qubits.
DeviceJsons == {0} \cup (2 .. MaxMapQubits)

Programs ==
    [calls : {0, 1}, decls : {1}, regs : {<<1>>, <<2>>, <<1, 1>>},
     physical : {FALSE}, mapper : {"none"}, symbolic : BOOLEAN]
    \cup
    [calls : {0}, decls : {0}, regs : {<<1>>, <<2>>, <<1, 1>>},
     physical : {FALSE}, mapper : {"none"}, symbolic : BOOLEAN]

RECURSIVE Sum(_)
Sum(s) == IF s = <<>> THEN 0 ELSE Head(s) + Sum(Tail(s))

\* tools::estimate_qubits: the qubits the program declares.
estimate_qubits(p) == Sum(p.regs)

\* transformations::inline_ast with {false, {}, "anc"}: every call of a
\* declared gate is replaced by the body, and the declarations are dropped.
inline_ast(p) == [p EXCEPT !.calls = 0, !.decls = 0]

\* mapping::apply_layout: every reference becomes a physical index of the
\* global register, which is declared with the width of the device.
apply_layout(n, p) == [p EXCEPT !.regs = <<n>>, !.physical = TRUE]

\* transformations::expr_simplify
expr_simplify(p) == [p EXCEPT !.symbolic = FALSE]

PermutationsOf(n) ==
    {f \in [Qubits(n) -> Qubits(n)] : \A a, b \in Qubits(n) : a # b => f[a] # f[b]}

MapInit ==
    /\ mpc = "inline"
    /\ args \in [layout : Layouts, mapper : Mappers, evaluate_all : BOOLEAN,
                 device_json : DeviceJsons]
    /\ prog_ \in Programs
    /\ before = prog_
    /\ dev = 0
    /\ mapped = <<>>
    /\ result = <<>>
    /\ errs = <<>>
    /\ passes = <<>>

\* Inline fully first
MapInline ==
    /\ mpc = "inline"
    /\ prog_' = inline_ast(prog_)
    /\ passes' = Append(passes, "inline")
    /\ mpc' = "device"
    /\ UNCHANGED <<args, before, dev, mapped, result, errs>>
    /\ UNCHANGED <<mvars, dvars, tvars>>

\* Physical device
MapDevice ==
    /\ mpc = "device"
    /\ dev' = IF args.device_json # 0 THEN args.device_json ELSE estimate_qubits(prog_)
    /\ passes' = Append(passes, "device")
    /\ mpc' = "layout"
    /\ UNCHANGED <<args, prog_, before, mapped, result, errs>>
    /\ UNCHANGED <<mvars, dvars, tvars>>

\* A layout step that goes on to the mapper without applying the layout.
MapLayoutSkipsApply ==
    /\ mpc = "layout"
    /\ IF args.layout \in {"linear", "eager", "bestfit"}
       THEN /\ passes' = Append(passes, "layout")
            /\ mpc' = "mapper"
            /\ UNCHANGED errs
       ELSE /\ errs' = Append(errs, "Error: invalid layout algorithm")
            /\ mpc' = "returned"
            /\ UNCHANGED passes
    /\ UNCHANGED <<args, prog_, before, dev, mapped, result>>
    /\ UNCHANGED <<mvars, dvars, tvars>>

\* Initial layout
MapLayout ==
    /\ mpc = "layout"
    /\ IF args.layout \in {"linear", "eager", "bestfit"}
       THEN /\ passes' = Append(passes, "layout")
            /\ mpc' = "apply_layout"
            /\ UNCHANGED errs
       ELSE /\ errs' = Append(errs, "Error: invalid layout algorithm")
            /\ mpc' = "returned"
            /\ UNCHANGED passes
    /\ UNCHANGED <<args, prog_, before, dev, mapped, result>>
    /\ UNCHANGED <<mvars, dvars, tvars>>

MapApplyLayout ==
    /\ mpc = "apply_layout"
    /\ prog_' = apply_layout(dev, prog_)
    /\ passes' = Append(passes, "apply_layout")
    /\ mpc' = "mapper"
    /\ UNCHANGED <<args, before, dev, mapped, result, errs>>
    /\ UNCHANGED <<mvars, dvars, tvars>>

\* Mapping: the mapper hands back a permutation of the device's qubits,
\* which the call statement drops.
MapMapper ==
    /\ mpc = "mapper"
    /\ IF args.mapper \in {"swap", "steiner"}
       THEN /\ \E p \in PermutationsOf(dev) : mapped' = <<p>>
            /\ prog_' = [prog_ EXCEPT !.mapper = args.mapper]
            /\ passes' = Append(passes, "mapper")
            /\ mpc' = "evaluate"
            /\ UNCHANGED errs
       ELSE /\ errs' = Append(errs, "Error: invalid mapping algorithm")
            /\ mpc' = "returned"
            /\ UNCHANGED <<prog_, mapped, passes>>
    /\ UNCHANGED <<args, before, dev, result>>
    /\ UNCHANGED <<mvars, dvars, tvars>>

\* Evaluating symbolic expressions, and the end of the body: map is void.
MapEvaluate ==
    /\ mpc = "evaluate"
    /\ prog_' = IF args.evaluate_all THEN expr_simplify(prog_) ELSE prog_
    /\ passes' = IF args.evaluate_all THEN Append(passes, "evaluate") ELSE passes
    /\ mpc' = "returned"
    /\ UNCHANGED <<args, before, dev, mapped, result, errs>>
    /\ UNCHANGED <<mvars, dvars, tvars>>

InitMap == MapInit /\ MapperIdle /\ DeviceIdle

NextMap ==
    \/ MapInline
    \/ MapDevice
    \/ MapLayout
    \/ MapApplyLayout
    \/ MapMapper
    \/ MapEvaluate

SpecMap == InitMap /\ [][NextMap]_vars

\* map was called with an unknown layout or an unknown mapper.
SelectorError ==
    \/ args.layout \notin {"linear", "eager", "bestfit"}
    \/ args.mapper \notin {"swap", "steiner"}

\* C7 (as claimed): when map is called with a layout other than
\* linear/eager/bestfit or a mapper other than swap/steiner, an error is
\* reported and the program after the call is the program before the call.
C7_SelectorErrorsLeaveProgram ==
    (mpc = "returned" /\ SelectorError) => (errs # <<>> /\ prog_ = before)

\* C9 (as claimed): the value map hands to its caller is the permutation
\* that the mapper returned after the last statement.
C9_MapReturnsPermutation ==
    (mpc = "returned" /\ mapped # <<>>) => result = mapped

\* The places in the log where the pass was run.
RunsOf(pass) == {k \in 1 .. Len(passes) : passes[k] = pass}

\* C18: whenever a mapper (swap or steiner) runs in map, inlining, device
\* construction, layout computation and layout application have completed
\* before it, in this order; the layout is applied once and never after the
\* mapper; and expression evaluation runs only after the mapper.
C18_PipelineOrder ==
    /\ RunsOf("mapper") # {} =>
          /\ Len(passes) >= 5
          /\ SubSeq(passes, 1, 5) =
                 <<"inline", "device", "layout", "apply_layout", "mapper">>
          /\ prog_.calls = 0
          /\ dev > 0
          /\ prog_.physical
          /\ prog_.regs = <<dev>>
    /\ prog_.mapper # "none" => RunsOf("mapper") # {}
    /\ Cardinality(RunsOf("apply_layout")) <= 1
    /\ \A k \in RunsOf("apply_layout") : \A m \in RunsOf("mapper") : k < m
    /\ \A k \in RunsOf("evaluate") : \E m \in RunsOf("mapper") : m < k
    /\ ~prog_.symbolic /\ before.symbolic => RunsOf("evaluate") # {}

\* map has returned after the steiner mapper and the evaluation of the
\* expressions, on a device read from its description.
C18_Witness ==
    /\ mpc = "returned"
    /\ args.mapper = "steiner"
    /\ args.device_json # 0
    /\ RunsOf("evaluate") # {}
    /\ before.symbolic

-----------------------------------------------------------------------------
(* Whole programs: Replacer::visit(Program&) with the overrides of          *)
(* SwapMapper, statement by statement, over the statements of every kind.   *)
(* body holds the statements as written, output what stands in the place of *)
(* each after its visit.                                                    *)

MaxStatements == 2

MaxQubitsProg == 3

\* measure q_arg -> c_arg
MeasureStmt(q_arg, c_arg) == [op |-> "measure", q_arg |-> q_arg, c_arg |-> c_arg]

\* if (c == v) then: the statements under the classical condition
IfStmt(then) == [op |-> "if", then |-> then]

\* gate g a, b { CX a, b; }: the body refers to the formal parameters
GateDecl ==
    [op |-> "gate",
     body |-> <<[op |-> "CX", ctrl |-> [var |-> "a"], tgt |-> [var |-> "b"]]>>]

OracleDecl == [op |-> "oracle"]

\* The registers a single-qubit gate may refer to.
Registers == {register_name, "anc"}

\* No replace(CNOTGate&) ran: nothing emitted, no swap, no diagnostic.
NoReplacement(perm) ==
    [replaced |-> FALSE, ret |-> <<>>, perm |-> perm, swaps |-> <<>>, err |-> <<>>]

\* A visit that elides the declaration from the program.
visit_DeclElided(perm, decl) == [perm |-> perm, res |-> <<>>]

\* SwapMapper::visit(ast::GateDecl&) and visit(ast::OracleDecl&): nothing is
\* traversed and nothing is handed back, so the statement stays as it is.
visit_Decl(perm, decl) == [perm |-> perm, res |-> <<decl>>]

\* The program loop for one statement: res takes the place of orig.  gate is
\* the statement after its references were rewritten, r the outcome of
\* replace(CNOTGate&); the swaps of a guarded statement run only when its
\* condition holds.
Splice(orig, gate, cnot_chain, r, res, guarded) ==
    /\ pc = "visit"
    /\ Len(body) < MaxStatements
    /\ body' = Append(body, orig)
    /\ output' = Append(output, res)
    /\ permutation_' = r.perm
    /\ cerr' = IF cerr = <<>> THEN r.err ELSE cerr
    /\ last' = [orig |-> <<orig>>, gate |-> <<gate>>, chain |-> cnot_chain,
                before |-> permutation_, res |-> res, replaced |-> r.replaced,
                swaps |-> r.swaps, afterErr |-> cerr # <<>>]
    /\ slot' = ApplySwaps(slot, r.swaps)
    /\ slotElse' = IF guarded THEN slotElse ELSE ApplySwaps(slotElse, r.swaps)
    /\ UNCHANGED <<qubits_, adj, dist, pc, ret, allLocal, xo, xm>>
    /\ UNCHANGED <<dvars, pvars>>

\* A two-qubit gate on any two references of the register, equal ones too.
VisitProgCNOT ==
    \E c0, t0 \in Qubits(qubits_) :
        LET orig == CNOTGate(VarAccess(register_name, c0), VarAccess(register_name, t0))
            rc == replace_VarAccess(permutation_, orig.ctrl)
            rt == replace_VarAccess(rc.perm, orig.tgt)
            gate == CNOTGate(rc.va, rt.va)
        IN  \E cnot_chain \in shortest_path(adj, dist, gate.ctrl.offset, gate.tgt.offset) :
              LET r == replace_CNOTGate(adj, rt.perm, gate, cnot_chain)
              IN  Splice(orig, gate, cnot_chain, r,
                         IF r.replaced THEN r.ret ELSE <<gate>>, FALSE)

\* A two-qubit gate under a classical condition: the statement under the
\* condition is visited like any other, and what it becomes stays under it.
VisitProgIf ==
    \E c0, t0 \in Qubits(qubits_) :
        LET then == CNOTGate(VarAccess(register_name, c0), VarAccess(register_name, t0))
            rc == replace_VarAccess(permutation_, then.ctrl)
            rt == replace_VarAccess(rc.perm, then.tgt)
            gate == CNOTGate(rc.va, rt.va)
        IN  \E cnot_chain \in shortest_path(adj, dist, gate.ctrl.offset, gate.tgt.offset) :
              LET r == replace_CNOTGate(adj, rt.perm, gate, cnot_chain)
              IN  Splice(IfStmt(<<then>>), IfStmt(<<gate>>), cnot_chain, r,
                         <<IfStmt(IF r.replaced THEN r.ret ELSE <<gate>>)>>, TRUE)

\* A single-qubit gate on the configured register or on another one.
VisitProgUGate ==
    \E var \in Registers, p \in Qubits(qubits_) :
        LET orig == UGate(VarAccess(var, p))
            ra == replace_VarAccess(permutation_, orig.arg)
        IN  Splice(orig, UGate(ra.va), <<>>, NoReplacement(ra.perm),
                   <<UGate(ra.va)>>, FALSE)

\* A measurement of a qubit of the register into the classical bit c[p].
VisitProgMeasure ==
    \E p \in Qubits(qubits_) :
        LET orig == MeasureStmt(VarAccess(register_name, p), VarAccess("c", p))
            rq == replace_VarAccess(permutation_, orig.q_arg)
            rc == replace_VarAccess(rq.perm, orig.c_arg)
        IN  Splice(orig, MeasureStmt(rq.va, rc.va), <<>>, NoReplacement(rc.perm),
                   <<MeasureStmt(rq.va, rc.va)>>, FALSE)

\* A gate or oracle declaration left in the program.
VisitProgDecl ==
    /\ pc = "visit"
    /\ \E decl \in {GateDecl, OracleDecl} :
          LET v == visit_Decl(permutation_, decl)
          IN  Splice(decl, decl, <<>>, NoReplacement(v.perm), v.res, FALSE)

\* The devices whole programs are mapped onto: the line of MaxQubitsProg
\* qubits and the line that leaves the last qubit apart, with couplings in
\* both directions and in mixed directions.
ProgDevices ==
    {AdjOf(MaxQubitsProg, edges, mode) :
        edges \in {Line(MaxQubitsProg), Split(MaxQubitsProg, MaxQubitsProg - 1)},
        mode \in {"both", "mixed"}}

InitProg ==
    /\ qubits_ = MaxQubitsProg
    /\ adj \in ProgDevices
    /\ dist = DistTable(adj)
    /\ permutation_ = Identity(qubits_)
    /\ pc = "visit"
    /\ ret = <<>>
    /\ cerr = <<>>
    /\ last = NoStatement
    /\ slot = Identity(qubits_)
    /\ allLocal = TRUE
    /\ body = <<>>
    /\ output = <<>>
    /\ slotElse = Identity(qubits_)
    /\ xo = [p \in Qubits(qubits_) |-> 0]
    /\ xm = xo
    /\ DeviceIdle
    /\ MapIdle

NextProg ==
    \/ VisitProgCNOT
    \/ VisitProgIf
    \/ VisitProgUGate
    \/ VisitProgMeasure
    \/ VisitProgDecl

\* The traversal of run(), up to its return.
SpecProg == InitProg /\ [][NextProg]_vars

-----------------------------------------------------------------------------
(* Properties of the traversal *)

\* The statement has a two-qubit gate: bare, or under a condition.
HasCNOT(s) == s.op \in {"CX", "if"}

InnerCNOT(s) == IF s.op = "if" THEN s.then[1] ELSE s

\* The statement the step visits, and what stands in its place afterwards.
Visited == body'[Len(body')]

Block == output'[Len(output')]

\* The step visits a statement.
Visits == body' # body

\* The pairs swapped for the statement recorded in l, read off its path.
PairsOf(l) ==
    IF l.chain = <<>> THEN <<>>
    ELSE LET nodes == <<InnerCNOT(l.gate[1]).ctrl.offset>> \o l.chain
         IN  [k \in 1 .. (Len(l.chain) - 1) |-> <<nodes[k], nodes[k + 1]>>]

\* block can stand for statement s: it is of the kind that s becomes.
Corresponds(s, block) ==
    CASE s.op = "CX" ->
           /\ block # <<>>
           /\ \A k \in 1 .. Len(block) : block[k].op \in {"CX", "H"}
      [] s.op = "if" ->
           /\ Len(block) = 1
           /\ block[1].op = "if"
           /\ block[1].then # <<>>
      [] s.op = "U" ->
           /\ Len(block) = 1
           /\ block[1].op = "U"
           /\ block[1].arg.var = s.arg.var
      [] s.op = "measure" ->
           /\ Len(block) = 1
           /\ block[1].op = "measure"
           /\ block[1].c_arg = s.c_arg
      [] OTHER -> block = <<s>>

\* C15: the references of the k-th statement are rewritten through
\* permutation_ as it stood before that statement; permutation_ after it is
\* that permutation with the swaps of the statement, which is what every
\* later statement reads; and the rewritten statements stand in the output
\* in the order of the original statements.
C15_OrderOfReadsAndWrites ==
    [][Visits =>
        /\ body' = Append(body, Visited)
        /\ output' = Append(output, last'.res)
        /\ Len(output') = Len(body')
        /\ \A m \in 1 .. Len(body') : Corresponds(body'[m], output'[m])
        /\ last'.before = permutation_
        /\ HasCNOT(Visited) =>
              InnerCNOT(last'.gate[1]) =
                  Cx(permutation_[InnerCNOT(Visited).ctrl.offset],
                     permutation_[InnerCNOT(Visited).tgt.offset])
        /\ \A q \in DOMAIN permutation_ :
              permutation_'[q] = Moved(permutation_[q], PairsOf(last'))
      ]_vars

\* The second statement is a two-qubit gate that is rewritten with a swap,
\* after a first statement whose swap had moved its control.
C15_Witness ==
    /\ Len(body) = 2
    /\ body[1].op = "CX"
    /\ body[2].op = "CX"
    /\ last.replaced
    /\ last.swaps # <<>>
    /\ last.gate[1].ctrl # body[2].ctrl
    /\ output[1] # <<body[1]>>

\* The reference as the claim has it after the visit.
Rewritten(va) ==
    IF va.var = "q" THEN [var |-> "q", offset |-> permutation_[va.offset]] ELSE va

C17_GuardedKeepsPlacement ==
    /\ \A s \in Qubits(qubits_) : slot[permutation_[s]] = s
    /\ \A s \in Qubits(qubits_) : slotElse[permutation_[s]] = s
    /\ (last.orig # <<>> /\ last.orig[1].op = "if") =>
          LET g == Cx(last.before[last.orig[1].then[1].ctrl.offset],
                      last.before[last.orig[1].then[1].tgt.offset])
          IN  \E cnot_chain \in shortest_path(adj, dist, g.ctrl.offset, g.tgt.offset) :
                LET r == replace_CNOTGate(adj, last.before, g, cnot_chain)
                IN  /\ r.perm = permutation_
                    /\ last.res[1].then = IF r.replaced THEN r.ret ELSE <<g>>

\* C19 (as claimed): the visit of a gate or oracle declaration leaves
\* permutation_ unchanged, rewrites nothing in its body, emits no gate, and
\* the declaration is elided from the output.
C19_DeclarationsElided ==
    [][(Visits /\ Visited.op \in {"gate", "oracle"}) =>
        /\ permutation_' = permutation_
        /\ slot' = slot
        /\ cerr' = cerr
        /\ output' = Append(output, <<>>)
      ]_vars

\* C19 (amended): the visit of a gate or oracle declaration leaves
\* permutation_ unchanged, rewrites nothing in its body, emits no gate, and
\* the declaration stays in the output as it was.
C19_DeclarationsLeftInPlace ==
    [][(Visits /\ Visited.op \in {"gate", "oracle"}) =>
        /\ permutation_' = permutation_
        /\ slot' = slot
        /\ cerr' = cerr
        /\ output' = Append(output, <<Visited>>)
      ]_vars

\* A gate declaration was visited after a statement whose swaps had changed
\* the permutation.
C19_Witness ==
    /\ Len(body) = 2
    /\ body[2] = GateDecl
    /\ last.orig = <<GateDecl>>
    /\ permutation_ # Identity(qubits_)
    /\ output[2] = <<GateDecl>>

=============================================================================
